---- MODULE Spec2Model ----
(***************************************************************************)
(* Goal streak bookkeeping of Solace.                                      *)
(*                                                                         *)
(* The repository holds the goal/ledger logic twice:                       *)
(*   - the zustand store of src/src/store.ts (lines 175-1024), whose       *)
(*     actions run atomically inside set(...);                             *)
(*   - the GoalTracker React component of src/src/FocusTimer.tsx (lines    *)
(*     2220-4429), whose handlers read the values captured by the last     *)
(*     render.                                                             *)
(* The variable impl says which of the two containers a behaviour runs.    *)
(*                                                                         *)
(* src/src/store.ts (lines 1-174) also holds an older store that keeps a   *)
(* completed flag per goal and no ledger (impl = "flagStore"); FlagSpec    *)
(* runs it.  LoadSpec runs the startup of GoalTracker and of the           *)
(* flag-based store over stored texts.                                     *)
(*                                                                         *)
(* The focus timer is held twice as well: the store of                     *)
(* src/src/timerStore.ts with the FocusTimer component of                  *)
(* src/unnamed/part_002 (impl = "timerStore"; TimerSpec, and TimerFairSpec *)
(* with the browser's scheduling), and the countdown of the flag-based     *)
(* store with the component of src/src/FocusTimer.tsx lines 1-120          *)
(* (CountdownSpec, CountdownFairSpec).  In a timer behaviour the clock     *)
(* counts seconds.                                                         *)
(*                                                                         *)
(* Time is one clock (Date.now()).  A day key (the YYYY-MM-DD prefix of    *)
(* toISOString()) is modelled by the day number clock \div MsPerDay.       *)
(* Dates are kept at day granularity.  Presentation fields of a goal       *)
(* (title, description, category, frequency, targetCount, color, icon,     *)
(* createdAt, history) are never read by the bookkeeping and are left out. *)
(***************************************************************************)
EXTENDS Integers, Sequences, FiniteSets, TLC

\* ------------------------------------------------------------------ bounds
FirstDay   == 10   \* day number of the first modelled day
NumDays    == 4    \* the clock runs over NumDays consecutive days
MsPerDay   == 2    \* clock readings per day (scaled down from 86400000)
MaxCalls   == 4    \* calls on existing goals and additions, per behaviour
SecondsPerMinute == 2   \* seconds in a minute (scaled down from 60)
MaxClicks  == 3    \* clicks on the timer's controls, per behaviour
HistoryKept == 3   \* sessions kept when one is added (scaled down from 99)

VARIABLES
    phase,          \* "stored" before the app starts, then "running" or "failed"
    impl,           \* "store", "GoalTracker" or "flagStore": the container
    clock,          \* Date.now()
    goals,          \* the goal list
    dailyProgress,  \* the ledger: list of {date, goals: [{goalId, completed}]}
    renderToday,    \* GoalTracker: the day key computed by the last render
    localStorage,   \* the stored document: null or {goals, dailyProgress}
    storageFull,    \* environment: what no longer fits the quota, so that
                    \* setItem throws: "none", "all" or "progress" (the ledger)
    writeOutcome,   \* history variable: how the last write to storage ended
    nCalls,         \* history variable: the calls counted by MaxCalls
    timer,          \* the state of useTimerStore (timerStore.ts)
    timeouts,       \* FocusTimer: the pending auto-start timeouts
    countdown       \* the flag-based store's timerMinutes, timerSeconds and
                    \* isTimerRunning

vars == <<phase, impl, clock, goals, dailyProgress, renderToday, localStorage,
          storageFull, writeOutcome, nCalls, timer, timeouts, countdown>>

\* ------------------------------------------------------- array primitives
undefined == <<>>

null == <<>>

\* Array.prototype.find: the first element passing the test, as <<x>>
find(arr, Test(_)) ==
    LET I == {i \in DOMAIN arr : Test(arr[i])}
    IN  IF I = {} THEN undefined
        ELSE <<arr[CHOOSE i \in I : \A j \in I : i <= j]>>

\* Array.prototype.map
map(arr, F(_)) == [i \in DOMAIN arr |-> F(arr[i])]

\* Array.prototype.filter
filter(arr, Test(_)) == SelectSeq(arr, Test)

\* ------------------------------------------------------------------ dates
\* new Date(t).toISOString().split('T')[0]
toISODate(t) == t \div MsPerDay

\* const y = new Date(); y.setDate(y.getDate() - 1); y.toISOString()...
yesterdayStr(t) == toISODate(t - MsPerDay)

\* new Date(), kept at day granularity
newDate(t) == <<toISODate(t)>>

\* ------------------------------------------------------------ goal records
\* A Goal (store.ts 226-242, FocusTimer.tsx 2228-2244).  fresh and log are
\* history fields, not program state: fresh records that the goal was created
\* with currentCount = streak = bestStreak = 0, log the day of every
\* toggleGoalCompletion call made on the goal since its creation.
Goal(id, status, currentCount, streak, bestStreak, lastCompleted, fresh) ==
    [id |-> id, status |-> status, currentCount |-> currentCount,
     streak |-> streak, bestStreak |-> bestStreak,
     lastCompleted |-> lastCompleted, fresh |-> fresh, log |-> <<>>]

\* history bookkeeping of a toggle call on goalId made on day d
logToggle(gs, goalId, d) ==
    [i \in DOMAIN gs |->
        IF gs[i].id = goalId THEN [gs[i] EXCEPT !.log = Append(@, d)] ELSE gs[i]]

\* `entry?.completed || false` for the result of a find over {goalId, completed}
completedOf(entry) == IF entry = undefined THEN FALSE ELSE entry[1].completed

\* ------------------------------------------------ store.ts (zustand store)
\* the seeded goals; new Date() is read when the module is loaded
defaultGoals(t) ==
    << Goal("goal-1", "active", 7, 7, 10, newDate(t), FALSE),
       Goal("goal-2", "active", 5, 5, 8, newDate(t), FALSE) >>

\* what a caller may pass as goalData: the counters and the status are the
\* caller's (Omit<Goal, 'id' | 'createdAt' | 'lastCompleted' | 'history'>)
GoalDataInputs ==
    { [status |-> "active", currentCount |-> 0, streak |-> 0, bestStreak |-> 0],
      [status |-> "active", currentCount |-> 1, streak |-> 2, bestStreak |-> 1] }

\* the statuses passed to updateGoalStatus
StatusInputs == {"active", "archived"}

addGoal(gs, goalData, t) ==
    LET newGoal ==
            Goal(ToString(t), goalData.status, goalData.currentCount,
                 goalData.streak, goalData.bestStreak, null,
                 goalData.currentCount = 0 /\ goalData.streak = 0
                     /\ goalData.bestStreak = 0)
    IN  <<newGoal>> \o gs

deleteGoal(gs, id) == filter(gs, LAMBDA goal : goal.id /= id)

\* mutant of updateGoalStatus: archiving a goal also ends its streak
updateGoalStatus_endsStreak(gs, goalId, status) ==
    map(gs, LAMBDA goal : IF goal.id = goalId
                          THEN [goal EXCEPT !.status = status,
                                            !.streak = IF status = "archived"
                                                         THEN 0 ELSE @]
                          ELSE goal)

updateGoalStatus(gs, goalId, status) ==
    map(gs, LAMBDA goal : IF goal.id = goalId
                          THEN [goal EXCEPT !.status = status] ELSE goal)

\* `progress.find(p => p.date === date)?.goals.find(g => g.goalId === goalId)
\*  ?.completed || false`
completedOn(progress, date, goalId) ==
    LET dayProgress == find(progress, LAMBDA p : p.date = date)
    IN  IF dayProgress = undefined THEN FALSE
        ELSE completedOf(find(dayProgress[1].goals, LAMBDA g : g.goalId = goalId))

\* mutants of undoGoal: the floor at 0 forgotten; the best streak taken back
\* with the streak; the timestamp cleared on the resulting count, not the old
undoGoal_noFloor(g) ==
    [g EXCEPT
       !.currentCount = IF g.currentCount - 1 > 0 THEN g.currentCount - 1 ELSE 0,
       !.streak = g.streak - 1,
       !.lastCompleted = IF g.currentCount = 1 THEN null ELSE g.lastCompleted]

undoGoal_lowersBest(g) ==
    LET newStreak == IF g.streak > 0 THEN g.streak - 1 ELSE 0
    IN  [g EXCEPT
           !.currentCount = IF g.currentCount - 1 > 0 THEN g.currentCount - 1 ELSE 0,
           !.streak = newStreak,
           !.bestStreak = newStreak,
           !.lastCompleted = IF g.currentCount = 1 THEN null ELSE g.lastCompleted]

undoGoal_keepsTimestamp(g) ==
    LET newStreak == IF g.streak > 0 THEN g.streak - 1 ELSE 0
    IN  [g EXCEPT
           !.currentCount = IF g.currentCount - 1 > 0 THEN g.currentCount - 1 ELSE 0,
           !.streak = newStreak,
           !.lastCompleted = IF g.currentCount = 0 THEN null ELSE g.lastCompleted]

\* mutant of undoGoal: the timestamp is never cleared
undoGoal_neverClears(g) ==
    [g EXCEPT !.currentCount = IF g.currentCount - 1 > 0 THEN g.currentCount - 1 ELSE 0,
              !.streak = IF g.streak - 1 > 0 THEN g.streak - 1 ELSE 0]

\* Undo completion: the update of the toggled goal
undoGoal(g) ==
    LET newStreak == IF g.streak > 0 THEN g.streak - 1 ELSE 0
    IN  [g EXCEPT
           !.currentCount = IF g.currentCount - 1 > 0 THEN g.currentCount - 1 ELSE 0,
           !.streak = newStreak,
           !.lastCompleted = IF g.currentCount = 1 THEN null ELSE g.lastCompleted]

\* mutant of undoProgress: the goal is un-marked in the record of every day
undoProgress_everyDay(progress, goalId, today) ==
    LET undoEntry(g) ==
            IF g.goalId = goalId THEN [g EXCEPT !.completed = FALSE] ELSE g
        undoDay(day) == [day EXCEPT !.goals = map(day.goals, undoEntry)]
    IN  map(progress, undoDay)

\* Undo completion: the update of the ledger
undoProgress(progress, goalId, today) ==
    LET undoEntry(g) ==
            IF g.goalId = goalId THEN [g EXCEPT !.completed = FALSE] ELSE g
        undoDay(day) ==
            IF day.date = today
            THEN [day EXCEPT !.goals = map(day.goals, undoEntry)] ELSE day
    IN  map(progress, undoDay)

\* mutant of completeGoal: the best streak is not raised
completeGoal_noBest(g, completedYesterday, t) ==
    LET newStreak == IF completedYesterday THEN g.streak + 1 ELSE 1
    IN  [g EXCEPT
           !.currentCount = g.currentCount + 1,
           !.streak = newStreak,
           !.lastCompleted = newDate(t)]

\* Mark as completed: the update of the toggled goal
completeGoal(g, completedYesterday, t) ==
    LET newStreak == IF completedYesterday THEN g.streak + 1 ELSE 1
        newBestStreak == IF g.bestStreak >= newStreak THEN g.bestStreak
                         ELSE newStreak
    IN  [g EXCEPT
           !.currentCount = g.currentCount + 1,
           !.streak = newStreak,
           !.bestStreak = newBestStreak,
           !.lastCompleted = newDate(t)]

\* mutants of completeProgress: the entry of the goal is appended without a
\* look at the entries of the day; the day record is pushed without a look
\* at the records of the ledger
completeProgress_appendsEntry(progress, goalId, today) ==
    LET completeDay(day) ==
            IF day.date = today
            THEN [day EXCEPT !.goals =
                     Append(day.goals, [goalId |-> goalId, completed |-> TRUE])]
            ELSE day
    IN  IF find(progress, LAMBDA p : p.date = today) /= undefined
        THEN map(progress, completeDay)
        ELSE Append(progress,
                    [date |-> today,
                     goals |-> <<[goalId |-> goalId, completed |-> TRUE]>>])

completeProgress_pushesDay(progress, goalId, today) ==
    Append(progress,
           [date |-> today,
            goals |-> <<[goalId |-> goalId, completed |-> TRUE]>>])

\* Mark as completed: the update of the ledger
completeProgress(progress, goalId, today) ==
    LET completeEntry(g) ==
            IF g.goalId = goalId THEN [g EXCEPT !.completed = TRUE] ELSE g
        completeDay(day) ==
            IF day.date = today
            THEN IF find(day.goals, LAMBDA g : g.goalId = goalId) /= undefined
                 THEN [day EXCEPT !.goals = map(day.goals, completeEntry)]
                 ELSE [day EXCEPT !.goals =
                          Append(day.goals, [goalId |-> goalId, completed |-> TRUE])]
            ELSE day
    IN  IF find(progress, LAMBDA p : p.date = today) /= undefined
        THEN map(progress, completeDay)
        ELSE Append(progress,
                    [date |-> today,
                     goals |-> <<[goalId |-> goalId, completed |-> TRUE]>>])

\* mutant of toggleGoalCompletion: `if (!goal) return state` left out
toggleGoalCompletion_noGuard(state, goalId, t) ==
    LET today == toISODate(t)
        isCompletedToday == completedOn(state.dailyProgress, today, goalId)
        completedYesterday ==
            completedOn(state.dailyProgress, yesterdayStr(t), goalId)
    IN  IF isCompletedToday
        THEN [goals |-> map(state.goals,
                            LAMBDA g : IF g.id = goalId THEN undoGoal(g) ELSE g),
              dailyProgress |-> undoProgress(state.dailyProgress, goalId, today)]
        ELSE [goals |-> map(state.goals,
                            LAMBDA g : IF g.id = goalId
                                       THEN completeGoal(g, completedYesterday, t)
                                       ELSE g),
              dailyProgress |-> completeProgress(state.dailyProgress, goalId, today)]

toggleGoalCompletion(state, goalId, t) ==
    LET today == toISODate(t)
        goal == find(state.goals, LAMBDA g : g.id = goalId)
        isCompletedToday == completedOn(state.dailyProgress, today, goalId)
        completedYesterday ==
            completedOn(state.dailyProgress, yesterdayStr(t), goalId)
    IN  IF goal = undefined THEN state
        ELSE IF isCompletedToday
        THEN [goals |-> map(state.goals,
                            LAMBDA g : IF g.id = goalId THEN undoGoal(g) ELSE g),
              dailyProgress |-> undoProgress(state.dailyProgress, goalId, today)]
        ELSE [goals |-> map(state.goals,
                            LAMBDA g : IF g.id = goalId
                                       THEN completeGoal(g, completedYesterday, t)
                                       ELSE g),
              dailyProgress |-> completeProgress(state.dailyProgress, goalId, today)]

getGoalStats(state, t) ==
    LET today == toISODate(t)
        todayProgress == find(state.dailyProgress, LAMBDA p : p.date = today)
    IN  [totalGoals |-> Len(state.goals),
         activeGoals |-> Len(filter(state.goals, LAMBDA g : g.status = "active")),
         completedToday |->
             IF todayProgress = undefined THEN 0
             ELSE Len(filter(todayProgress[1].goals, LAMBDA g : g.completed))]

\* ------------------------------- FocusTimer.tsx (GoalTracker component)
\* the seeded goals and ledger of a first run
GoalTracker_defaultGoals(t) ==
    << Goal("1", "active", 1, 2, 10, newDate(t), FALSE),
       Goal("2", "active", 2, 3, 5, newDate(t), FALSE),
       Goal("3", "active", 1, 5, 8, newDate(t), FALSE) >>

defaultDailyProgress(t) ==
    << [date |-> toISODate(t),
        goals |-> << [goalId |-> "1", completed |-> TRUE],
                     [goalId |-> "2", completed |-> TRUE],
                     [goalId |-> "3", completed |-> TRUE] >>] >>

\* the titles typed into the add-goal form
TitleInputs == {"", " ", "Read"}

\* String.prototype.trim, on the titles of TitleInputs
trim(title) == IF title = " " THEN "" ELSE title

\* const todayProgress = dailyProgress.find(p => p.date === today) || {...},
\* with today the day key computed by the render
todayProgressOf(progress, rToday) ==
    LET p == find(progress, LAMBDA d : d.date = rToday)
    IN  IF p = undefined THEN [date |-> rToday, goals |-> <<>>] ELSE p[1]

\* Math.round((completed / total) * 100) || 0 on counts: x / 0 is NaN for
\* x = 0 and Infinity for x > 0, Math.round(x) is floor(x + 1/2), and the
\* falsy values NaN and 0 give 0
NaN == [tag |-> "NaN", v |-> 0]

Infinity == [tag |-> "Infinity", v |-> 0]

Number(n) == [tag |-> "number", v |-> n]

roundedPercentage(completed, total) ==
    LET rounded ==
            IF total = 0
            THEN (IF completed = 0 THEN NaN ELSE Infinity)
            ELSE Number((200 * completed + total) \div (2 * total))
    IN  IF rounded = NaN \/ rounded = Number(0) THEN Number(0) ELSE rounded

todayStats(gs, progress, rToday) ==
    LET todayProgress == todayProgressOf(progress, rToday)
        total == Len(filter(gs, LAMBDA g : g.status = "active"))
        completed == Len(filter(todayProgress.goals, LAMBDA g : g.completed))
    IN  [total |-> total, completed |-> completed,
         percentage |-> roundedPercentage(completed, total)]

handleAddGoal(gs, newGoalTitle, t) ==
    IF trim(newGoalTitle) /= ""
    THEN <<Goal(ToString(t), "active", 0, 0, 0, null, TRUE)>> \o gs
    ELSE gs

\* Undo completion: the update of the toggled goal
GoalTracker_undoGoal(g) ==
    LET newStreak == IF g.streak > 0 THEN g.streak - 1 ELSE 0
    IN  [g EXCEPT
           !.currentCount = IF g.currentCount - 1 > 0 THEN g.currentCount - 1 ELSE 0,
           !.streak = newStreak,
           !.lastCompleted = IF g.currentCount = 1 THEN null ELSE g.lastCompleted]

\* Undo completion: the update of the ledger
GoalTracker_undoProgress(progress, goalId, today) ==
    LET undoEntry(g) ==
            IF g.goalId = goalId THEN [g EXCEPT !.completed = FALSE] ELSE g
        undoDay(day) ==
            IF day.date = today
            THEN [day EXCEPT !.goals = map(day.goals, undoEntry)] ELSE day
    IN  map(progress, undoDay)

\* Mark as completed: the update of the toggled goal
GoalTracker_completeGoal(g, completedYesterday, t) ==
    LET newStreak == IF completedYesterday THEN g.streak + 1 ELSE 1
        newBestStreak == IF g.bestStreak >= newStreak THEN g.bestStreak
                         ELSE newStreak
    IN  [g EXCEPT
           !.currentCount = g.currentCount + 1,
           !.streak = newStreak,
           !.bestStreak = newBestStreak,
           !.lastCompleted = newDate(t)]

\* Mark as completed: the update of the ledger
GoalTracker_completeProgress(progress, goalId, today) ==
    LET completeEntry(g) ==
            IF g.goalId = goalId THEN [g EXCEPT !.completed = TRUE] ELSE g
        completeDay(day) ==
            IF day.date = today
            THEN IF find(day.goals, LAMBDA g : g.goalId = goalId) /= undefined
                 THEN [day EXCEPT !.goals = map(day.goals, completeEntry)]
                 ELSE [day EXCEPT !.goals =
                          Append(day.goals, [goalId |-> goalId, completed |-> TRUE])]
            ELSE day
        updatedProgress == map(progress, completeDay)
    IN  \* If no progress entry for today exists
        IF find(progress, LAMBDA p : p.date = today) = undefined
        THEN Append(updatedProgress,
                    [date |-> today,
                     goals |-> <<[goalId |-> goalId, completed |-> TRUE]>>])
        ELSE updatedProgress

\* state is what the last render captured: goals, dailyProgress and the
\* todayProgress of the render's day rToday; t is the clock at the call
GoalTracker_toggleGoalCompletion(state, rToday, goalId, t) ==
    LET today == toISODate(t)
        todayProgress == todayProgressOf(state.dailyProgress, rToday)
        goal == find(state.goals, LAMBDA g : g.id = goalId)
        isCompletedToday ==
            completedOf(find(todayProgress.goals, LAMBDA g : g.goalId = goalId))
        completedYesterday ==
            completedOn(state.dailyProgress, yesterdayStr(t), goalId)
    IN  IF goal = undefined THEN state
        ELSE IF isCompletedToday
        THEN [goals |-> map(state.goals,
                            LAMBDA g : IF g.id = goalId
                                       THEN GoalTracker_undoGoal(g) ELSE g),
              dailyProgress |->
                  GoalTracker_undoProgress(state.dailyProgress, goalId, today)]
        ELSE [goals |-> map(state.goals,
                            LAMBDA g : IF g.id = goalId
                                       THEN GoalTracker_completeGoal(
                                                g, completedYesterday, t)
                                       ELSE g),
              dailyProgress |->
                  GoalTracker_completeProgress(state.dailyProgress, goalId, today)]

\* getGoalProgress(goal).isCompletedToday, read at clock t
getGoalProgress(progress, goalId, t) == completedOn(progress, toISODate(t), goalId)

GoalTracker_updateGoalStatus(gs, goalId, status) ==
    map(gs, LAMBDA goal : IF goal.id = goalId
                          THEN [goal EXCEPT !.status = status] ELSE goal)

GoalTracker_deleteGoal(gs, goalId) == filter(gs, LAMBDA goal : goal.id /= goalId)

\* ------------------------------------------------------------ persistence
\* Date.prototype.toISOString, at day granularity
toISOString(date) == <<date[1], "Z">>

\* JSON.stringify of the goal list: a Date becomes its ISO string
stringifyGoals(gs) ==
    map(gs, LAMBDA g : [g EXCEPT !.lastCompleted =
                            IF @ = null THEN null ELSE toISOString(@)])

\* JSON.stringify of the ledger: strings and booleans only
stringifyProgress(progress) == progress

\* how a write to localStorage ends: "ok", or "failed" when setItem throws
setItemOutcome(full) == IF full = "all" THEN "failed" ELSE "ok"

\* how the two writes of the save effect end: the first throw ends the try
\* block, so a throw of the second setItem leaves the first one written
saveEffectOutcome(full) ==
    IF full = "all" THEN "failed"
    ELSE IF full = "progress" THEN "partial"
    ELSE "ok"

\* mutant of partialize: the ledger is not among the persisted fields
partialize_withoutLedger(state) ==
    [goals |-> stringifyGoals(state.goals), dailyProgress |-> <<>>]

\* the persist middleware of the store: after set, partialize(state) is
\* written under 'solaceflow-storage'
partialize(state) ==
    [goals |-> stringifyGoals(state.goals),
     dailyProgress |-> stringifyProgress(state.dailyProgress)]

persistWrite(stored, state, outcome) ==
    IF outcome = "ok" THEN partialize(state) ELSE stored

\* the save effect of GoalTracker: 'zen-goals', then 'zen-goal-progress'
saveEffect(stored, state, outcome) ==
    IF outcome = "ok"
      THEN [goals |-> stringifyGoals(state.goals),
            dailyProgress |-> stringifyProgress(state.dailyProgress)]
    ELSE IF outcome = "partial"
      THEN [goals |-> stringifyGoals(state.goals),
            dailyProgress |-> IF stored = null THEN <<>>
                              ELSE stored.dailyProgress]
    ELSE stored

\* ------------------------------------- store.ts 1-174 (flag-based store)
\* A Goal of the flag-based store (store.ts 10-16): lastCompleted is absent
\* or the toDateString() of the day of the last completion, kept as <<day>>.
\* startOfDay is a history field, not program state: <<day, streak>> for the
\* day of the last toggleGoal call on the goal and the streak the goal had
\* before the first call of that day.
FlagGoal(id, completed, streak, lastCompleted) ==
    [id |-> id, completed |-> completed, streak |-> streak,
     lastCompleted |-> lastCompleted, startOfDay |-> undefined]

\* history bookkeeping of a toggleGoal call on id made on day d
noteStartOfDay(gs, id, d) ==
    [i \in DOMAIN gs |->
        IF gs[i].id = id /\ (gs[i].startOfDay = undefined \/ gs[i].startOfDay[1] /= d)
          THEN [gs[i] EXCEPT !.startOfDay = <<d, gs[i].streak>>]
          ELSE gs[i]]

\* new Date(t).toDateString(): the calendar day of t
toDateString(t) == t \div MsPerDay

\* new Date(s) for a string s produced by toDateString(): midnight of its day
dateOfString(s) == s[1] * MsPerDay

flagStore_addGoal(gs, t) ==
    Append(gs, FlagGoal(ToString(t), FALSE, 0, undefined))

toggleGoal(gs, id, t) ==
    LET todayStr == toDateString(t)
        yesterday == toDateString(t - MsPerDay)
        toggled(goal) ==
            LET newCompleted == ~goal.completed
                lastCompletedDate ==
                    IF goal.lastCompleted = undefined THEN null
                    ELSE <<toDateString(dateOfString(goal.lastCompleted))>>
                newStreak ==
                    IF ~newCompleted THEN goal.streak
                    ELSE IF \/ lastCompletedDate = null
                            \/ lastCompletedDate = <<yesterday>>
                            \/ lastCompletedDate = <<todayStr>>
                           THEN goal.streak + 1
                           ELSE 1
            IN  [goal EXCEPT !.completed = newCompleted,
                             !.streak = newStreak,
                             !.lastCompleted = IF newCompleted THEN <<todayStr>>
                                               ELSE @]
    IN  map(gs, LAMBDA goal : IF goal.id = id THEN toggled(goal) ELSE goal)

flagStore_deleteGoal(gs, id) == filter(gs, LAMBDA goal : goal.id /= id)

\* saveState: the state is written under 'solaceflow-storage'; a throw of
\* setItem is caught and logged
saveState(stored, gs, outcome) ==
    IF outcome = "ok" THEN [goals |-> gs] ELSE stored

\* ------------------------------------------------------ loading at startup
\* What getItem and JSON.parse make of the text under a key: no item, a text
\* that is not JSON, the JSON null, a JSON value that is neither null nor a
\* list ({}), or a list, whose elements are kept in value.
NoItem == [json |-> "none", value |-> <<>>]

Unparsable == [json |-> "unparsable", value |-> <<>>]

JsonNull == [json |-> "null", value |-> <<>>]

JsonObject == [json |-> "object", value |-> <<>>]

JsonList(list) == [json |-> "list", value |-> list]

\* `x || fallback`, `x ? a : b` for a parsed value: null is falsy, an object
\* and a list (an empty one too) are truthy
truthy(item) == item.json \in {"object", "list"}

\* new Date(s) for the ISO string s of a date
dateOfISOString(s) == <<s[1]>>

\* the map of loadFromStorage over the parsed goals: the dates are revived
reviveGoals(gs) ==
    map(gs, LAMBDA goal : [goal EXCEPT !.lastCompleted =
                              IF @ = null THEN null ELSE dateOfISOString(@)])

\* loadFromStorage of GoalTracker over the texts under 'zen-goals' and
\* 'zen-goal-progress'; a throw of JSON.parse or of .map ends in the catch
\* clause and the function returns null (loaded = FALSE)
loadFromStorage(texts) ==
    LET savedGoals == texts.goals
        savedProgress == texts.dailyProgress
        nothing == [loaded |-> FALSE, goals |-> <<>>, progress |-> NoItem]
    IN  IF savedGoals.json = "none" THEN nothing
        ELSE IF savedGoals.json /= "list" THEN nothing
        ELSE IF savedProgress.json = "unparsable" THEN nothing
        ELSE [loaded |-> TRUE,
              goals |-> reviveGoals(savedGoals.value),
              progress |-> IF savedProgress.json = "none" THEN JsonList(<<>>)
                           ELSE savedProgress]

\* useState(() => loadFromStorage()?.goals || defaultGoals)
initialGoals(texts, t) ==
    LET loaded == loadFromStorage(texts)
    IN  IF loaded.loaded THEN loaded.goals ELSE GoalTracker_defaultGoals(t)

\* useState(() => loadFromStorage()?.progress || defaultDailyProgress): the
\* parsed value is taken as it is when it is truthy
initialProgress(texts, t) ==
    LET loaded == loadFromStorage(texts)
    IN  IF loaded.loaded /\ truthy(loaded.progress) THEN loaded.progress
        ELSE JsonList(defaultDailyProgress(t))

\* the texts under the two keys of a stored document {goals, dailyProgress}
asTexts(stored) ==
    [goals |-> JsonList(stored.goals),
     dailyProgress |-> JsonList(stored.dailyProgress)]

\* the texts the save effect leaves for a goal list and a ledger
textsOf(state) == asTexts(saveEffect(null, state, "ok"))

\* The persist middleware of the store reads the stored document back when
\* the store is created.  Its options (name, storage, partialize) name no
\* reviver, merge or onRehydrateStorage, so the goals and the ledger are
\* what JSON.parse yields: a date stays the string it was written as.
rehydrate(stored, initialState) ==
    IF stored = null THEN initialState
    ELSE [goals |-> stored.goals, dailyProgress |-> stored.dailyProgress]

\* loadState of the flag-based store over the text under
\* 'solaceflow-storage', an object of which only the goals field is kept:
\* no item and a text that is not JSON give {}, anything else what it parses to
loadState(text) ==
    IF text.json \in {"none", "unparsable"}
      THEN [json |-> "object", goals |-> NoItem]
      ELSE text

\* goals: initialState.goals || []
flagStore_initialGoals(initialState) ==
    IF truthy(initialState.goals) THEN initialState.goals ELSE JsonList(<<>>)

\* ------------------------------------------ timerStore.ts (the timer store)
\* Number.prototype.toString of a natural number: its decimal digits
Digits == <<"0", "1", "2", "3", "4", "5", "6", "7", "8", "9">>

RECURSIVE numberToString(_)
numberToString(n) ==
    IF n < 10 THEN <<Digits[n + 1]>>
    ELSE numberToString(n \div 10) \o <<Digits[(n % 10) + 1]>>

\* String.prototype.padStart with a pad string of one character
RECURSIVE padStart(_, _, _)
\* mutant of padStart: nothing is put in front
padStart_unpadded(str, targetLength, padString) == str

padStart(str, targetLength, padString) ==
    IF Len(str) >= targetLength THEN str
    ELSE padStart(<<padString>> \o str, targetLength, padString)

\* Array.prototype.slice(start, end) of a list
slice(arr, start, end) ==
    SubSeq(arr, start + 1, IF end < Len(arr) THEN end ELSE Len(arr))

\* The table of durations in seconds.  FocusTimer imports it from timerStore
\* under the name timerPresets; timerStore.ts holds it as defaultTimerPresets
\* and as the store's timerPresets field.
timerPresets ==
    [focus      |-> [label \in {"15", "25", "45", "60"} |->
                        CASE label = "15" -> 15 * SecondsPerMinute
                          [] label = "25" -> 25 * SecondsPerMinute
                          [] label = "45" -> 45 * SecondsPerMinute
                          [] label = "60" -> 60 * SecondsPerMinute],
     shortBreak |-> [label \in {"5", "10"} |->
                        CASE label = "5" -> 5 * SecondsPerMinute
                          [] label = "10" -> 10 * SecondsPerMinute],
     longBreak  |-> [label \in {"15", "20"} |->
                        CASE label = "15" -> 15 * SecondsPerMinute
                          [] label = "20" -> 20 * SecondsPerMinute]]

TimerModes == {"focus", "shortBreak", "longBreak"}

\* the state the store is created with; sessionDuration is a history field:
\* the time the countdown was last set to, other than by a tick
timerInitialState ==
    [sessionDuration   |-> 25 * SecondsPerMinute,
     time              |-> 25 * SecondsPerMinute,
     isRunning         |-> FALSE,
     isCompleted       |-> FALSE,
     mode              |-> "focus",
     autoStartBreaks   |-> TRUE,
     pomodoroCount     |-> 0,
     totalFocusTime    |-> 0,
     completedSessions |-> 0,
     remainingTime     |-> <<"2", "5", ":", "0", "0">>,
     timerHistory      |-> <<>>]

setIsRunning(state, isRunning) == [state EXCEPT !.isRunning = isRunning]

setAutoStartBreaks(state, autoStart) ==
    [state EXCEPT !.autoStartBreaks = autoStart]

setRemainingTime(state, time) == [state EXCEPT !.remainingTime = time]

setTime(state, time) ==
    LET minutes == time \div SecondsPerMinute
        seconds == time % SecondsPerMinute
    IN  setRemainingTime([state EXCEPT !.time = time],
            padStart(numberToString(minutes), 2, "0") \o <<":">>
                \o padStart(numberToString(seconds), 2, "0"))

startTimer(state) == [state EXCEPT !.isRunning = TRUE, !.isCompleted = FALSE]

pauseTimer(state) == [state EXCEPT !.isRunning = FALSE]

resetTimer(state) ==
    LET mode == state.mode
        defaultTime ==
            CASE mode = "focus" -> 25 * SecondsPerMinute
              [] mode = "shortBreak" -> 5 * SecondsPerMinute
              [] mode = "longBreak" -> 15 * SecondsPerMinute
        minutes == defaultTime \div SecondsPerMinute
        seconds == defaultTime % SecondsPerMinute
    IN  setRemainingTime(
            [state EXCEPT !.time = defaultTime, !.isRunning = FALSE,
                          !.isCompleted = FALSE],
            padStart(numberToString(minutes), 2, "0") \o <<":">>
                \o padStart(numberToString(seconds), 2, "0"))

incrementPomodoroCount(state) == [state EXCEPT !.pomodoroCount = @ + 1]

addFocusTime(state, seconds) == [state EXCEPT !.totalFocusTime = @ + seconds]

\* mutant of addTimerSession: one session more is kept
addTimerSession_keepsOneMore(state, mode, duration, now) ==
    [state EXCEPT !.timerHistory =
        <<[id |-> ToString(now), mode |-> mode, duration |-> duration,
           completedAt |-> now]>> \o slice(@, 0, HistoryKept + 1)]

\* the new session goes first, before the HistoryKept newest of the sessions
\* held: slice(0, 99)
addTimerSession(state, mode, duration, now) ==
    [state EXCEPT !.timerHistory =
        <<[id |-> ToString(now), mode |-> mode, duration |-> duration,
           completedAt |-> now]>> \o slice(@, 0, HistoryKept)]

\* mutant of completeTimer: the pomodoro is counted whatever the mode
completeTimer_countsEveryMode(state, now) ==
    LET mode == state.mode
        time == state.time
        counted == [state EXCEPT !.isRunning = FALSE, !.isCompleted = TRUE,
                                 !.completedSessions = @ + 1]
    IN  addTimerSession(addFocusTime(incrementPomodoroCount(counted), time),
                        mode, time, now)

\* mode and time are read from the store when completeTimer is called
completeTimer(state, now) ==
    LET mode == state.mode
        time == state.time
        counted == [state EXCEPT !.isRunning = FALSE, !.isCompleted = TRUE,
                                 !.completedSessions = @ + 1]
        focused == IF mode = "focus"
                     THEN addFocusTime(incrementPomodoroCount(counted), time)
                     ELSE counted
    IN  addTimerSession(focused, mode, time, now)

switchMode(state, newMode) ==
    LET defaultTime ==
            CASE newMode = "focus" -> 25 * SecondsPerMinute
              [] newMode = "shortBreak" -> 5 * SecondsPerMinute
              [] newMode = "longBreak" -> 15 * SecondsPerMinute
        minutes == defaultTime \div SecondsPerMinute
        seconds == defaultTime % SecondsPerMinute
    IN  setRemainingTime(
            [state EXCEPT !.mode = newMode, !.time = defaultTime,
                          !.isRunning = FALSE, !.isCompleted = FALSE],
            padStart(numberToString(minutes), 2, "0") \o <<":">>
                \o padStart(numberToString(seconds), 2, "0"))

setTimerDuration(state, seconds) ==
    LET minutes == seconds \div SecondsPerMinute
        secs == seconds % SecondsPerMinute
    IN  setRemainingTime(
            [state EXCEPT !.time = seconds, !.isRunning = FALSE,
                          !.isCompleted = FALSE],
            padStart(numberToString(minutes), 2, "0") \o <<":">>
                \o padStart(numberToString(secs), 2, "0"))

\* ------------------------- FocusTimer component of the timer (part_002)
\* history: the countdown starts over from the time just set
noteDuration(state) == [state EXCEPT !.sessionDuration = state.time]

\* handleTimerComplete, up to the timeout it sets
handleTimerComplete(state, now) == completeTimer(setIsRunning(state, FALSE), now)

\* mutant of autoStartCallback: the break is chosen by the count before the
\* session that just completed
autoStartCallback_countBefore(state, pomodoroCount) ==
    LET newMode == IF pomodoroCount % 4 = 0 THEN "longBreak"
                   ELSE "shortBreak"
        newTime == IF newMode = "longBreak" THEN timerPresets.longBreak["15"]
                   ELSE timerPresets.shortBreak["5"]
    IN  startTimer(setTime(switchMode(state, newMode), newTime))

\* the callback of the timeout; pomodoroCount is the count read by the
\* render whose effect called handleTimerComplete
autoStartCallback(state, pomodoroCount) ==
    LET newMode == IF (pomodoroCount + 1) % 4 = 0 THEN "longBreak"
                   ELSE "shortBreak"
        newTime == IF newMode = "longBreak" THEN timerPresets.longBreak["15"]
                   ELSE timerPresets.shortBreak["5"]
    IN  startTimer(setTime(switchMode(state, newMode), newTime))

\* ------------------------- store.ts 55-173 (the flag-based countdown)
\* timerMinutes: initialState.timerMinutes || 25, timerSeconds:
\* initialState.timerSeconds || 0, of the numbers an earlier session stored
countdownInitialState(storedMinutes, storedSeconds) ==
    [timerMinutes   |-> IF storedMinutes /= 0 THEN storedMinutes ELSE 25,
     timerSeconds   |-> IF storedSeconds /= 0 THEN storedSeconds ELSE 0,
     isTimerRunning |-> FALSE]

flagStore_startTimer(state) == [state EXCEPT !.isTimerRunning = TRUE]

stopTimer(state) == [state EXCEPT !.isTimerRunning = FALSE]

flagStore_resetTimer(state) ==
    [state EXCEPT !.timerMinutes = 25, !.timerSeconds = 0,
                  !.isTimerRunning = FALSE]

tickTimer(state) ==
    IF state.timerMinutes = 0 /\ state.timerSeconds = 0
      THEN [state EXCEPT !.isTimerRunning = FALSE]
    ELSE IF state.timerSeconds > 0
      THEN [state EXCEPT !.timerSeconds = @ - 1]
    ELSE [state EXCEPT !.timerMinutes = @ - 1, !.timerSeconds = 59]

\* ---------------------------------------------------------------- actions
\* an id no goal has
NoSuchId == "missing"

IdInputs == {goals[i].id : i \in DOMAIN goals} \cup {NoSuchId}

hasGoal(goalId) == \E i \in DOMAIN goals : goals[i].id = goalId

\* The app starts on a first run (nothing stored: the seeded goals) or from
\* the document an earlier session left; of those, the one in which the user
\* had deleted the seeded goals the day before is modelled.
Init ==
    /\ phase = "running"
    /\ impl \in {"store", "GoalTracker"}
    /\ clock = FirstDay * MsPerDay
    /\ \E firstRun \in BOOLEAN :
        /\ goals = IF ~firstRun THEN <<>>
                   ELSE IF impl = "store" THEN defaultGoals(clock)
                   ELSE GoalTracker_defaultGoals(clock)
        /\ dailyProgress =
               IF impl = "store" THEN <<>>
               ELSE IF firstRun THEN defaultDailyProgress(clock)
               ELSE defaultDailyProgress(clock - MsPerDay)
        /\ storageFull \in IF impl = "GoalTracker"
                             THEN {"none", "all", "progress"}
                             ELSE {"none", "all"}
        \* a first run finds nothing stored, a later run the document it
        \* loaded; the store writes on set only, the save effect of
        \* GoalTracker has run once the component is mounted
        /\ localStorage =
               IF ~firstRun
                 THEN IF impl = "store"
                        THEN persistWrite(null, [goals |-> goals,
                                                 dailyProgress |-> dailyProgress],
                                          "ok")
                        ELSE saveEffect(null, [goals |-> goals,
                                               dailyProgress |-> dailyProgress],
                                        "ok")
               ELSE IF impl = "store" THEN null
               ELSE saveEffect(null, [goals |-> goals,
                                      dailyProgress |-> dailyProgress],
                               saveEffectOutcome(storageFull))
        /\ writeOutcome =
               IF impl = "store" THEN "none" ELSE saveEffectOutcome(storageFull)
    /\ renderToday = toISODate(clock)
    /\ nCalls = 0
    /\ timer = timerInitialState
    /\ timeouts = {}
    /\ countdown = countdownInitialState(25, 0)

\* set(...) of the store puts the next state in place; the write of the
\* persist middleware follows it
StorePersist(next) ==
    /\ goals' = next.goals
    /\ dailyProgress' = next.dailyProgress
    /\ localStorage' = persistWrite(localStorage, next,
                                    setItemOutcome(storageFull))
    /\ writeOutcome' = setItemOutcome(storageFull)
    /\ UNCHANGED storageFull

\* mutant of TrackerSave: a failing write takes the state change back
TrackerSave_rollsBack(next) ==
    /\ goals' = IF storageFull = "all" THEN goals ELSE next.goals
    /\ dailyProgress' = IF storageFull = "all" THEN dailyProgress
                        ELSE next.dailyProgress
    /\ localStorage' = saveEffect(localStorage, next,
                                  saveEffectOutcome(storageFull))
    /\ writeOutcome' = saveEffectOutcome(storageFull)
    /\ UNCHANGED storageFull

\* setGoals/setDailyProgress put the next state in place; a render and the
\* save effect follow, and the effect catches and logs a failing write
TrackerSave(next) ==
    /\ goals' = next.goals
    /\ dailyProgress' = next.dailyProgress
    /\ localStorage' = saveEffect(localStorage, next,
                                  saveEffectOutcome(storageFull))
    /\ writeOutcome' = saveEffectOutcome(storageFull)
    /\ UNCHANGED storageFull

\* Time passes; nothing renders.  The clock is read for the day key and for
\* the id of a new goal, so within a day only a tick that leaves a reading
\* some goal carries as its id is modelled.
TickMs ==
    /\ toISODate(clock + 1) = toISODate(clock)
    /\ hasGoal(ToString(clock))
    /\ clock' = clock + 1
    /\ UNCHANGED <<timer, timeouts, countdown,
                   phase, impl, goals, dailyProgress, renderToday, localStorage,
                   storageFull, writeOutcome, nCalls>>

\* midnight (UTC) passes; nothing renders
NextDay ==
    /\ toISODate(clock) + 1 < FirstDay + NumDays
    /\ clock' = (toISODate(clock) + 1) * MsPerDay
    /\ UNCHANGED <<timer, timeouts, countdown,
                   phase, impl, goals, dailyProgress, renderToday, localStorage,
                   storageFull, writeOutcome, nCalls>>

StoreAddGoal(goalData) ==
    /\ impl = "store"
    /\ nCalls < MaxCalls
    /\ nCalls' = nCalls + 1
    /\ UNCHANGED <<timer, timeouts, countdown,
                   phase, impl, clock, renderToday>>
    /\ StorePersist([goals |-> addGoal(goals, goalData, clock),
                     dailyProgress |-> dailyProgress])

StoreDeleteGoal(id) ==
    /\ impl = "store"
    /\ hasGoal(id) => nCalls < MaxCalls
    /\ nCalls' = IF hasGoal(id) THEN nCalls + 1 ELSE nCalls
    /\ UNCHANGED <<timer, timeouts, countdown,
                   phase, impl, clock, renderToday>>
    /\ StorePersist([goals |-> deleteGoal(goals, id),
                     dailyProgress |-> dailyProgress])

StoreUpdateGoalStatus(goalId, status) ==
    /\ impl = "store"
    /\ hasGoal(goalId) => nCalls < MaxCalls
    /\ nCalls' = IF hasGoal(goalId) THEN nCalls + 1 ELSE nCalls
    /\ UNCHANGED <<timer, timeouts, countdown,
                   phase, impl, clock, renderToday>>
    /\ StorePersist([goals |-> updateGoalStatus(goals, goalId, status),
                     dailyProgress |-> dailyProgress])

StoreToggleGoalCompletion(goalId) ==
    /\ impl = "store"
    /\ hasGoal(goalId) => nCalls < MaxCalls
    /\ LET next == toggleGoalCompletion(
                       [goals |-> goals, dailyProgress |-> dailyProgress],
                       goalId, clock)
       IN  StorePersist([goals |-> logToggle(next.goals, goalId, toISODate(clock)),
                         dailyProgress |-> next.dailyProgress])
    /\ nCalls' = IF hasGoal(goalId) THEN nCalls + 1 ELSE nCalls
    /\ UNCHANGED <<timer, timeouts, countdown,
                   phase, impl, clock, renderToday>>

\* The GoalTracker handlers end in setGoals/setDailyProgress, and React renders
\* the component again before the next event: the render reads the clock.
TrackerAddGoal(title) ==
    /\ impl = "GoalTracker"
    /\ trim(title) /= "" => nCalls < MaxCalls
    /\ renderToday' = IF trim(title) /= "" THEN toISODate(clock) ELSE renderToday
    /\ nCalls' = IF trim(title) /= "" THEN nCalls + 1 ELSE nCalls
    /\ UNCHANGED <<timer, timeouts, countdown,
                   phase, impl, clock>>
    /\ IF trim(title) /= ""
         THEN TrackerSave([goals |-> handleAddGoal(goals, title, clock),
                           dailyProgress |-> dailyProgress])
         ELSE UNCHANGED <<goals, dailyProgress, localStorage, storageFull,
                          writeOutcome>>

TrackerDeleteGoal(goalId) ==
    /\ impl = "GoalTracker"
    /\ hasGoal(goalId) => nCalls < MaxCalls
    /\ renderToday' = toISODate(clock)
    /\ nCalls' = IF hasGoal(goalId) THEN nCalls + 1 ELSE nCalls
    /\ UNCHANGED <<timer, timeouts, countdown,
                   phase, impl, clock>>
    /\ TrackerSave([goals |-> GoalTracker_deleteGoal(goals, goalId),
                    dailyProgress |-> dailyProgress])

TrackerUpdateGoalStatus(goalId, status) ==
    /\ impl = "GoalTracker"
    /\ hasGoal(goalId) => nCalls < MaxCalls
    /\ renderToday' = toISODate(clock)
    /\ nCalls' = IF hasGoal(goalId) THEN nCalls + 1 ELSE nCalls
    /\ UNCHANGED <<timer, timeouts, countdown,
                   phase, impl, clock>>
    /\ TrackerSave([goals |-> GoalTracker_updateGoalStatus(goals, goalId, status),
                    dailyProgress |-> dailyProgress])

TrackerToggleGoalCompletion(goalId) ==
    /\ impl = "GoalTracker"
    /\ hasGoal(goalId) => nCalls < MaxCalls
    /\ LET next == GoalTracker_toggleGoalCompletion(
                       [goals |-> goals, dailyProgress |-> dailyProgress],
                       renderToday, goalId, clock)
       IN  IF hasGoal(goalId)
             THEN TrackerSave([goals |-> logToggle(next.goals, goalId,
                                                   toISODate(clock)),
                               dailyProgress |-> next.dailyProgress])
             ELSE UNCHANGED <<goals, dailyProgress, localStorage, storageFull,
                              writeOutcome>>
    /\ renderToday' = IF hasGoal(goalId) THEN toISODate(clock) ELSE renderToday
    /\ nCalls' = IF hasGoal(goalId) THEN nCalls + 1 ELSE nCalls
    /\ UNCHANGED <<timer, timeouts, countdown,
                   phase, impl, clock>>

\* any other state change of the component (a tab, a form field) renders it
TrackerRender ==
    /\ impl = "GoalTracker"
    /\ renderToday /= toISODate(clock)
    /\ renderToday' = toISODate(clock)
    /\ UNCHANGED <<timer, timeouts, countdown,
                   phase, impl, clock, goals, dailyProgress, localStorage,
                   storageFull, writeOutcome, nCalls>>

Next ==
    \/ TickMs
    \/ NextDay
    \/ \E goalData \in GoalDataInputs : StoreAddGoal(goalData)
    \/ \E id \in IdInputs : StoreDeleteGoal(id)
    \/ \E id \in IdInputs, status \in StatusInputs : StoreUpdateGoalStatus(id, status)
    \/ \E id \in IdInputs : StoreToggleGoalCompletion(id)
    \/ \E title \in TitleInputs : TrackerAddGoal(title)
    \/ \E id \in IdInputs : TrackerDeleteGoal(id)
    \/ \E id \in IdInputs, status \in StatusInputs : TrackerUpdateGoalStatus(id, status)
    \/ \E id \in IdInputs : TrackerToggleGoalCompletion(id)
    \/ TrackerRender

Spec == Init /\ [][Next]_vars

\* ----------------------------------------------------------------- claims
today == toISODate(clock)

GoalIds == {goals[i].id : i \in DOMAIN goals}

ToggleStep(id) ==
    StoreToggleGoalCompletion(id) \/ TrackerToggleGoalCompletion(id)

DeleteStep(id) == StoreDeleteGoal(id) \/ TrackerDeleteGoal(id)

max(a, b) == IF a >= b THEN a ELSE b

\* C1: after every toggleGoalCompletion call, whatever the day and whatever
\* the order of completions and undos, the streak of every goal is >= 0.
C1_StreakNonNegative == \A i \in DOMAIN goals : goals[i].streak >= 0

\* a goal whose only toggle was an undo, made at streak 0
C1_Witness ==
    \E i \in DOMAIN goals :
        /\ Len(goals[i].log) = 1
        /\ goals[i].bestStreak = 0
        /\ goals[i].streak = 0

\* the best streaks of the goals carrying id, in list order
bestStreaksOf(gs, id) ==
    LET sel == SelectSeq(gs, LAMBDA g : g.id = id)
    IN  [k \in DOMAIN sel |-> sel[k].bestStreak]

\* C2: no operation (add, toggle, status update, deletion of another goal)
\* lowers the bestStreak of a goal that stays in the list; an undo in
\* particular leaves it as it is.
C2_BestStreakNeverDecreases ==
    [][\A id \in GoalIds :
          LET before == bestStreaksOf(goals, id)
              after  == bestStreaksOf(goals', id)
              added  == Len(after) - Len(before)
          IN  added >= 0 =>
                  \A k \in DOMAIN before : after[k + added] >= before[k]]_vars

\* a fresh goal completed and undone: its best streak stays above its streak
C2_Witness ==
    \E i \in DOMAIN goals :
        /\ goals[i].fresh
        /\ Len(goals[i].log) = 2
        /\ goals[i].streak = 0
        /\ goals[i].bestStreak = 1

\* C3: every goal created with streak = bestStreak = 0 has
\* bestStreak >= streak in every reachable state.
C3_BestStreakBoundsStreak ==
    \A i \in DOMAIN goals : goals[i].fresh => goals[i].bestStreak >= goals[i].streak

\* a fresh goal whose chained completion raised both to 2
C3_Witness ==
    \E i \in DOMAIN goals :
        goals[i].fresh /\ goals[i].streak = 2 /\ goals[i].bestStreak = 2

\* the container's state as the toggle operators take it
current == [goals |-> goals, dailyProgress |-> dailyProgress]

\* one call of the container's toggle, made from state st whose view was
\* rendered on day rToday (the store has no rendered view)
toggleOnce(st, rToday, id) ==
    IF impl = "store"
      THEN toggleGoalCompletion(st, id, clock)
      ELSE GoalTracker_toggleGoalCompletion(st, rToday, id, clock)

\* C4: two toggleGoalCompletion calls on the same goal in immediate
\* succession on the same day restore its currentCount, its streak and its
\* completed flag in today's ledger record.
C4_ToggleInvolution ==
    \A id \in GoalIds :
        LET once  == toggleOnce(current, renderToday, id)
            twice == toggleOnce(once, today, id)
        IN  /\ \A i \in DOMAIN goals :
                  goals[i].id = id =>
                      /\ twice.goals[i].currentCount = goals[i].currentCount
                      /\ twice.goals[i].streak = goals[i].streak
            /\ completedOn(twice.dailyProgress, today, id)
                   = completedOn(dailyProgress, today, id)

\* C5: a toggle of a goal today's ledger does not mark completed sets
\* streak to streak + 1 when yesterday's record marks it completed and to 1
\* otherwise, raises bestStreak to max(bestStreak, streak), adds 1 to
\* currentCount, sets lastCompleted and marks the goal completed today.
C5_CompleteTransition ==
    [][\A id \in GoalIds :
          (ToggleStep(id) /\ ~completedOn(dailyProgress, today, id)) =>
              /\ \A i \in DOMAIN goals :
                    goals[i].id = id =>
                        LET newStreak ==
                                IF completedOn(dailyProgress, today - 1, id)
                                  THEN goals[i].streak + 1 ELSE 1
                        IN  /\ goals'[i].streak = newStreak
                            /\ goals'[i].bestStreak
                                   = max(goals[i].bestStreak, newStreak)
                            /\ goals'[i].currentCount = goals[i].currentCount + 1
                            /\ goals'[i].lastCompleted = newDate(clock)
              /\ completedOn(dailyProgress', today, id)]_vars

\* C6: a freshly created goal toggled once on a day D has streak 1 and
\* bestStreak 1; toggled once more on D + 1 it has 2 and 2; toggled once
\* more on D + 3, nothing having happened on D + 2, it has streak 1 and
\* bestStreak 2.
C6_MultiDayChain ==
    \A i \in DOMAIN goals :
        goals[i].fresh =>
            LET l == goals[i].log
            IN  /\ Len(l) = 1 =>
                      goals[i].streak = 1 /\ goals[i].bestStreak = 1
                /\ (Len(l) = 2 /\ l[2] = l[1] + 1) =>
                      goals[i].streak = 2 /\ goals[i].bestStreak = 2
                /\ (Len(l) = 3 /\ l[2] = l[1] + 1 /\ l[3] = l[1] + 3) =>
                      goals[i].streak = 1 /\ goals[i].bestStreak = 2

\* C7: a toggle of a goal today's ledger marks completed lowers streak and
\* currentCount by 1 with a floor of 0, clears lastCompleted when the new
\* currentCount is 0 and leaves it alone otherwise, and leaves the goal not
\* completed in today's record.
C7_UndoTransition ==
    [][\A id \in GoalIds :
          (ToggleStep(id) /\ completedOn(dailyProgress, today, id)) =>
              /\ \A i \in DOMAIN goals :
                    goals[i].id = id =>
                        /\ goals'[i].streak = max(0, goals[i].streak - 1)
                        /\ goals'[i].currentCount
                               = max(0, goals[i].currentCount - 1)
                        /\ goals'[i].lastCompleted
                               = IF goals'[i].currentCount = 0
                                   THEN null ELSE goals[i].lastCompleted
              /\ ~completedOn(dailyProgress', today, id)]_vars

\* an undo that left a positive count and with it the old timestamp
C7_Witness ==
    \E i \in DOMAIN goals :
        /\ Len(goals[i].log) = 2
        /\ goals[i].log[1] = today /\ goals[i].log[2] = today
        /\ goals[i].currentCount > 0
        /\ goals[i].lastCompleted = newDate(clock)
        /\ ~completedOn(dailyProgress, today, goals[i].id)

\* the goal ids the ledger mentions
LedgerIds(progress) ==
    UNION {{progress[d].goals[e].goalId : e \in DOMAIN progress[d].goals} :
               d \in DOMAIN progress}

\* C8: after deleteGoal(id) no ledger record of any day holds an entry
\* with that goal id.
C8_DeletePurgesLedger ==
    [][\A id \in GoalIds : DeleteStep(id) => id \notin LedgerIds(dailyProgress')]_vars

\* the goals with status active that the ledger marks completed on day d
activeCompleted(d) ==
    {i \in DOMAIN goals :
        goals[i].status = "active" /\ completedOn(dailyProgress, d, goals[i].id)}

\* C9: with no goal of status active, todayStats.percentage is 0, not NaN
\* and not Infinity.
C9_PercentageZeroWithoutActiveGoals ==
    (impl = "GoalTracker"
        /\ todayStats(goals, dailyProgress, renderToday).total = 0)
    => todayStats(goals, dailyProgress, renderToday).percentage = Number(0)

\* C10: the completed figure of today's statistics is the number of active
\* goals the ledger marks completed today, so it never exceeds the total
\* of active goals and the percentage lies in 0..100.
C10_CompletedCountsActiveGoals ==
    IF impl = "GoalTracker"
      THEN LET stats == todayStats(goals, dailyProgress, renderToday)
           IN  /\ stats.completed = Cardinality(activeCompleted(renderToday))
               /\ stats.completed <= stats.total
               /\ stats.percentage \in {Number(n) : n \in 0..100}
      ELSE LET stats == getGoalStats(current, clock)
           IN  /\ stats.completedToday = Cardinality(activeCompleted(today))
               /\ stats.completedToday <= stats.activeGoals

\* the ids a caller can hold that no goal carries: an id never given out and
\* the ids of deleted goals the ledger still mentions
StaleIds == ({NoSuchId} \cup LedgerIds(dailyProgress)) \ GoalIds

\* C11: toggleGoalCompletion with a goalId no goal carries is a no-op: the
\* goal list and the ledger come back unchanged.
C11_ToggleUnknownIdIsNoOp ==
    \A id \in StaleIds :
        /\ toggleOnce(current, renderToday, id) = current
        /\ toggleOnce(current, today, id) = current

\* calls were made and the ledger holds the entry of a goal deleted since,
\* completed today and the day before
C11_Witness ==
    /\ nCalls > 0
    /\ \E id \in StaleIds \ {NoSuchId} :
          completedOn(dailyProgress, today, id)
              /\ completedOn(dailyProgress, today - 1, id)

\* C12: three toggleGoalCompletion calls in a row on one day, on a goal not
\* completed today, leave it completed today with currentCount one above
\* its starting value and with the streak the first call gave it.
C12_ThreeToggles ==
    \A id \in GoalIds :
        ~completedOn(dailyProgress, today, id) =>
            LET once   == toggleOnce(current, renderToday, id)
                twice  == toggleOnce(once, today, id)
                thrice == toggleOnce(twice, today, id)
            IN  /\ completedOn(thrice.dailyProgress, today, id)
                /\ \A i \in DOMAIN goals :
                      goals[i].id = id =>
                          /\ thrice.goals[i].currentCount
                                 = goals[i].currentCount + 1
                          /\ thrice.goals[i].streak = once.goals[i].streak

UpdateStatusStep(id, status) ==
    StoreUpdateGoalStatus(id, status) \/ TrackerUpdateGoalStatus(id, status)

\* C13: updateGoalStatus(goalId, status) changes only the status of the goal
\* carrying goalId: its streak, bestStreak, currentCount and lastCompleted,
\* the goals of every other id, and the whole ledger stay as they were.
C13_UpdateStatusFrame ==
    [][\A id \in GoalIds, status \in StatusInputs :
          UpdateStatusStep(id, status) =>
              /\ DOMAIN goals' = DOMAIN goals
              /\ \A i \in DOMAIN goals :
                    IF goals[i].id = id
                      THEN /\ goals'[i].status = status
                           /\ goals'[i].id = id
                           /\ goals'[i].streak = goals[i].streak
                           /\ goals'[i].bestStreak = goals[i].bestStreak
                           /\ goals'[i].currentCount = goals[i].currentCount
                           /\ goals'[i].lastCompleted = goals[i].lastCompleted
                      ELSE goals'[i] = goals[i]
              /\ dailyProgress' = dailyProgress]_vars

\* an archived goal that kept a running streak and its entry of today
C13_Witness ==
    \E i \in DOMAIN goals :
        /\ goals[i].status = "archived"
        /\ goals[i].streak > 0
        /\ goals[i].lastCompleted /= null
        /\ completedOn(dailyProgress, today, goals[i].id)

\* C14: the ledger holds at most one record per day key, and a day's record
\* holds each goalId at most once, whatever toggles produced it.
C14_LedgerKeysUnique ==
    /\ \A d, e \in DOMAIN dailyProgress :
          dailyProgress[d].date = dailyProgress[e].date => d = e
    /\ \A d \in DOMAIN dailyProgress :
          \A j, k \in DOMAIN dailyProgress[d].goals :
              dailyProgress[d].goals[j].goalId = dailyProgress[d].goals[k].goalId
                  => j = k

\* a goal completed, undone and completed again today, in a ledger of two
\* days
C14_Witness ==
    /\ Len(dailyProgress) >= 2
    /\ \E i \in DOMAIN goals :
          /\ Len(goals[i].log) = 3
          /\ \A k \in 1..3 : goals[i].log[k] = today
          /\ completedOn(dailyProgress, today, goals[i].id)

\* the day keys of the modelled days and of the ledger's records
Dates(progress) == {progress[d].date : d \in DOMAIN progress}

Days == FirstDay .. (FirstDay + NumDays - 1)

\* the ledger upsert (day, goalId, completed = true) of the container
setCompleted(progress, goalId, day) ==
    IF impl = "store"
      THEN completeProgress(progress, goalId, day)
      ELSE GoalTracker_completeProgress(progress, goalId, day)

\* C15: the ledger upsert is idempotent: writing (day, goalId, completed =
\* true) a second and a third time leaves the ledger as the first write
\* left it.
C15_UpsertIdempotent ==
    \A id \in IdInputs \cup LedgerIds(dailyProgress) :
        \A day \in Days \cup Dates(dailyProgress) :
            LET once == setCompleted(dailyProgress, id, day)
            IN  /\ completedOn(once, day, id)
                /\ setCompleted(once, id, day) = once
                /\ setCompleted(setCompleted(once, id, day), id, day) = once

\* a ledger of two days whose record of today holds an undone entry: the
\* upsert meets a missing day, a missing entry and a present entry
C15_Witness ==
    /\ Len(dailyProgress) >= 2
    /\ \E d \in DOMAIN dailyProgress :
          /\ dailyProgress[d].date = today
          /\ \E k \in DOMAIN dailyProgress[d].goals :
                ~dailyProgress[d].goals[k].completed

\* the record of a day and the entry of a goal in it, as find returns them
recordOf(progress, day) == find(progress, LAMBDA p : p.date = day)

entryOf(progress, day, goalId) ==
    IF recordOf(progress, day) = undefined THEN undefined
    ELSE find(recordOf(progress, day)[1].goals, LAMBDA g : g.goalId = goalId)

\* C16: a toggleGoalCompletion(id) call made on day T changes at most the
\* ledger record of day T and in it only the entry of id; the records of the
\* other days, the entries of the other goals and the goals of every other
\* id stay as they were.
C16_ToggleFrame ==
    [][\A id \in GoalIds :
          ToggleStep(id) =>
              /\ DOMAIN goals' = DOMAIN goals
              /\ \A i \in DOMAIN goals :
                    goals[i].id /= id => goals'[i] = goals[i]
              /\ \A day \in Dates(dailyProgress) \cup Dates(dailyProgress') :
                    IF day /= today
                      THEN recordOf(dailyProgress', day)
                               = recordOf(dailyProgress, day)
                      ELSE \A other \in (LedgerIds(dailyProgress)
                                           \cup LedgerIds(dailyProgress')) \ {id} :
                               entryOf(dailyProgress', day, other)
                                   = entryOf(dailyProgress, day, other)]_vars

\* a goal undone today that stays completed in the record of the day before,
\* next to the entry of another goal
C16_Witness ==
    \E i \in DOMAIN goals :
        /\ Len(goals[i].log) >= 2
        /\ goals[i].log[Len(goals[i].log)] = today
        /\ entryOf(dailyProgress, today, goals[i].id)
               = <<[goalId |-> goals[i].id, completed |-> FALSE]>>
        /\ completedOn(dailyProgress, today - 1, goals[i].id)
        /\ \E other \in LedgerIds(dailyProgress) \ {goals[i].id} :
              completedOn(dailyProgress, today - 1, other)

\* C17: a ledger record of a day exists only if a goal was toggled on that
\* day: the ledger starts without a record of the current day, only a toggle
\* adds a record, and the record it adds is the one of the day of the call.
C17_RecordsOnlyFromToggles ==
    /\ today \notin Dates(dailyProgress)
    /\ [][/\ Dates(dailyProgress') \subseteq Dates(dailyProgress) \cup {today}
          /\ Dates(dailyProgress') /= Dates(dailyProgress)
                => \E id \in GoalIds : ToggleStep(id)]_vars

AddStep ==
    \/ \E goalData \in GoalDataInputs : StoreAddGoal(goalData)
    \/ \E title \in TitleInputs : TrackerAddGoal(title)

\* C18: a goal produced by the create-goal operation starts with status
\* active, currentCount 0, streak 0, bestStreak 0 and lastCompleted null,
\* whatever the caller passed.
C18_NewGoalStartsAtZero ==
    [][(AddStep /\ Len(goals') = Len(goals) + 1) =>
          /\ goals'[1].status = "active"
          /\ goals'[1].currentCount = 0
          /\ goals'[1].streak = 0
          /\ goals'[1].bestStreak = 0
          /\ goals'[1].lastCompleted = null]_vars

\* C19: the goals of the list have pairwise distinct ids, also after two
\* create-goal calls at one clock reading.
C19_IdsPairwiseDistinct ==
    \A i, j \in DOMAIN goals : goals[i].id = goals[j].id => i = j

\* a call that changed the goal list or the ledger: a creation, or a toggle,
\* status update or deletion of an existing goal
MutatingStep ==
    \/ AddStep /\ Len(goals') = Len(goals) + 1
    \/ \E id \in GoalIds :
          \/ ToggleStep(id)
          \/ DeleteStep(id)
          \/ \E status \in StatusInputs : UpdateStatusStep(id, status)

\* C20: once a mutating goal operation has completed and its write has not
\* failed, the stored document is the serialisation of the goal list and of
\* the ledger in memory.
C20_StoredCopyFollowsMemory ==
    [][(MutatingStep /\ writeOutcome' = "ok") =>
          /\ localStorage' /= null
          /\ localStorage'.goals = stringifyGoals(goals')
          /\ localStorage'.dailyProgress = stringifyProgress(dailyProgress')]_vars

\* a write went through after a toggle: the stored goal holds the date of
\* today as a string and the stored ledger the record of today
C20_Witness ==
    /\ nCalls > 0
    /\ writeOutcome = "ok"
    /\ localStorage /= null
    /\ \E i \in DOMAIN goals :
          /\ goals[i].log /= <<>>
          /\ localStorage.goals[i].lastCompleted = toISOString(newDate(clock))
          /\ completedOn(localStorage.dailyProgress, today, goals[i].id)

StoredGoals == stringifyGoals(GoalTracker_defaultGoals((FirstDay - 1) * MsPerDay))

StoredProgress == stringifyProgress(defaultDailyProgress((FirstDay - 1) * MsPerDay))

\* the texts found under 'zen-goals' and under 'zen-goal-progress'
GoalTexts ==
    {NoItem, Unparsable, JsonNull, JsonObject, JsonList(<<>>),
     JsonList(StoredGoals)}

ProgressTexts ==
    {NoItem, Unparsable, JsonNull, JsonObject, JsonList(<<>>),
     JsonList(StoredProgress)}

\* the texts found under 'solaceflow-storage' by the flag-based store
FlagTexts ==
    {[json |-> k, goals |-> NoItem] : k \in {"none", "unparsable", "null"}}
    \cup {[json |-> "object", goals |-> g] :
            g \in {NoItem, JsonNull, JsonObject, JsonList(<<>>),
                   JsonList(<<FlagGoal("g", TRUE, 1, <<FirstDay - 1>>)>>)}}

\* The app is about to start over some stored texts.  In LoadSpec the
\* variable localStorage holds the texts under the keys, not their lists.
LoadInit ==
    /\ phase = "stored"
    /\ impl \in {"GoalTracker", "flagStore"}
    /\ clock = FirstDay * MsPerDay
    /\ goals = <<>>
    /\ dailyProgress = <<>>
    /\ renderToday = toISODate(clock)
    /\ localStorage \in IF impl = "GoalTracker"
                         THEN [goals : GoalTexts, dailyProgress : ProgressTexts]
                         ELSE FlagTexts
    /\ storageFull \in {"none", "all"}
    /\ writeOutcome = "none"
    /\ nCalls = 0
    /\ timer = timerInitialState
    /\ timeouts = {}
    /\ countdown = countdownInitialState(25, 0)

\* GoalTracker mounts: the two useState initialisers, the first render, which
\* calls dailyProgress.find and throws on a value without it, then the save
\* effect
TrackerStartup ==
    /\ phase = "stored"
    /\ impl = "GoalTracker"
    /\ LET g == initialGoals(localStorage, clock)
           p == initialProgress(localStorage, clock)
       IN  IF p.json = "list"
             THEN /\ phase' = "running"
                  /\ goals' = g
                  /\ dailyProgress' = p.value
                  /\ localStorage' =
                        IF setItemOutcome(storageFull) = "ok"
                          THEN textsOf([goals |-> g, dailyProgress |-> p.value])
                          ELSE localStorage
                  /\ writeOutcome' = setItemOutcome(storageFull)
             ELSE /\ phase' = "failed"
                  /\ UNCHANGED <<goals, dailyProgress, localStorage,
                                 writeOutcome>>
    /\ UNCHANGED <<timer, timeouts, countdown,
                   impl, clock, renderToday, storageFull, nCalls>>

\* the module of the flag-based store is loaded: loadState(), then create()
\* reads initialState.tasks (a TypeError on null), then the first render of
\* its consumers calls goals.map
FlagStoreStartup ==
    /\ phase = "stored"
    /\ impl = "flagStore"
    /\ LET initialState == loadState(localStorage)
       IN  IF initialState.json = "null"
             THEN phase' = "failed" /\ UNCHANGED goals
             ELSE LET g == flagStore_initialGoals(initialState)
                  IN  IF g.json = "list"
                        THEN phase' = "running" /\ goals' = g.value
                        ELSE phase' = "failed" /\ UNCHANGED goals
    /\ UNCHANGED <<timer, timeouts, countdown,
                   impl, clock, dailyProgress, renderToday, localStorage,
                   storageFull, writeOutcome, nCalls>>

LoadNext == TrackerStartup \/ FlagStoreStartup

LoadSpec == LoadInit /\ [][LoadNext]_vars

\* a stored text that is not the JSON of a list
malformed(item) == item.json \in {"unparsable", "null", "object"}

\* the stored document has a text that does not parse or is not a list
MalformedDocument ==
    IF impl = "GoalTracker"
      THEN malformed(localStorage.goals) \/ malformed(localStorage.dailyProgress)
      ELSE malformed(localStorage)
              \/ (localStorage.json = "object" /\ malformed(localStorage.goals))

\* C22: whatever is stored, startup ends with the app running; and when a
\* stored text fails to parse or is not a list, what was stored is discarded
\* and the app starts from its default state for both the goals and the
\* ledger (GoalTracker: the seeded goals and ledger; flag-based store: no
\* goals).
C22_MalformedDocumentDiscarded ==
    [][(phase = "stored" /\ phase' /= "stored") =>
          /\ phase' = "running"
          /\ MalformedDocument =>
                IF impl = "GoalTracker"
                  THEN /\ goals' = GoalTracker_defaultGoals(clock)
                       /\ dailyProgress' = defaultDailyProgress(clock)
                  ELSE goals' = <<>>]_vars

\* what the container holds after a restart over the stored document
loadedFrom(stored) ==
    IF impl = "store"
      THEN rehydrate(stored, [goals |-> defaultGoals(clock), dailyProgress |-> <<>>])
      ELSE [goals |-> initialGoals(asTexts(stored), clock),
            dailyProgress |-> initialProgress(asTexts(stored), clock).value]

\* C23: round trip.  Loading the document a save has written yields the goal
\* list and the ledger that were saved, the lastCompleted of every goal being
\* null or a date equal to the original.
C23_RoundTrip ==
    (writeOutcome = "ok" /\ localStorage /= null) =>
        /\ loadedFrom(localStorage).goals = goals
        /\ loadedFrom(localStorage).dailyProgress = dailyProgress

\* the counters of the goals carrying goalId, in list order
countersOf(gs, goalId) ==
    [i \in DOMAIN gs |->
        IF gs[i].id = goalId
          THEN <<gs[i].currentCount, gs[i].streak, gs[i].bestStreak>>
          ELSE <<>>]

\* C24: a toggleGoalCompletion call is one step for every observer: the state
\* it leaves has the counters of the goal and the ledger entry of today
\* updated together, never the counters without the entry or the entry
\* without the counters.
C24_CountersAndLedgerTogether ==
    [][\A id \in GoalIds :
          ToggleStep(id) =>
              (countersOf(goals', id) /= countersOf(goals, id)
                  <=> completedOn(dailyProgress', today, id)
                          /= completedOn(dailyProgress, today, id))]_vars

\* C25: no lost update.  Every toggleGoalCompletion call acts on the state
\* the previous call left, as it is when the call is made: its result is the
\* toggle transition computed from the current goal list, the current ledger
\* and the current day, so that calls issued back to back add up to
\* sequential transitions.
C25_ToggleActsOnCurrentState ==
    [][\A id \in GoalIds :
          ToggleStep(id) =>
              LET next == toggleOnce(current, today, id)
              IN  /\ goals' = logToggle(next.goals, id, today)
                  /\ dailyProgress' = next.dailyProgress]_vars

\* the days on which the ledger marks goalId completed
completedDays(progress, goalId) ==
    {d \in Dates(progress) : completedOn(progress, d, goalId)}

\* the number of consecutive days, ending with day d, that the ledger marks
\* goalId completed
RECURSIVE runEnding(_, _, _)
runEnding(progress, goalId, d) ==
    IF completedOn(progress, d, goalId)
      THEN 1 + runEnding(progress, goalId, d - 1)
      ELSE 0

\* the run that ends with the most recent completed day of goalId
latestRun(progress, goalId) ==
    LET C == completedDays(progress, goalId)
    IN  IF C = {} THEN 0
        ELSE runEnding(progress, goalId, CHOOSE d \in C : \A e \in C : e <= d)

\* C26: for a goal created fresh, after any sequence of toggles over any days,
\* the streak is the number of consecutive calendar days the ledger marks
\* completed, ending at the most recent completed day of the goal (0 when the
\* ledger has no completed day for it).
C26_StreakIsLatestLedgerRun ==
    \A i \in DOMAIN goals :
        goals[i].fresh =>
            goals[i].streak = latestRun(dailyProgress, goals[i].id)

\* C27: for a goal created with currentCount = 0, in every state reachable by
\* toggles over any days, currentCount is the number of days on which the
\* ledger marks the goal completed.
C27_CountIsCompletedDays ==
    \A i \in DOMAIN goals :
        goals[i].fresh =>
            goals[i].currentCount
                = Cardinality(completedDays(dailyProgress, goals[i].id))

\* C28: for a goal created fresh, in every reachable state lastCompleted is
\* null exactly when the goal has no completion recorded (currentCount = 0).
C28_TimestampNullIffNoCompletion ==
    \A i \in DOMAIN goals :
        goals[i].fresh =>
            (goals[i].lastCompleted = null <=> goals[i].currentCount = 0)

\* a fresh goal that was completed and then un-done, both today: it is back
\* at count 0 and its timestamp is cleared
C28_Witness ==
    \E i \in DOMAIN goals :
        /\ goals[i].fresh
        /\ Len(goals[i].log) = 2
        /\ goals[i].log[1] = today /\ goals[i].log[2] = today
        /\ ~completedOn(dailyProgress, today, goals[i].id)
        /\ goals[i].currentCount = 0
        /\ goals[i].lastCompleted = null

\* C29: for a goal created fresh, in every reachable state in which the
\* ledger marks the goal completed today, the streak is the length of the run
\* of consecutive completed days in the ledger that ends today (so the streak
\* and currentCount are at least 1).
C29_StreakIsRunEndingToday ==
    \A i \in DOMAIN goals :
        (goals[i].fresh /\ completedOn(dailyProgress, today, goals[i].id)) =>
            /\ goals[i].streak = runEnding(dailyProgress, goals[i].id, today)
            /\ goals[i].streak >= 1
            /\ goals[i].currentCount >= 1

\* ------------------------------------------ the flag-based store running
\* The flag-based store after startup: a first run, or a later run over the
\* goal an earlier session completed the day before (its flag is still set).
FlagInit ==
    /\ phase = "running"
    /\ impl = "flagStore"
    /\ clock = FirstDay * MsPerDay
    /\ \E firstRun \in BOOLEAN :
          /\ goals = IF firstRun THEN <<>>
                     ELSE <<FlagGoal("g", TRUE, 1, <<FirstDay - 1>>)>>
          /\ localStorage = IF firstRun THEN null ELSE saveState(null, goals, "ok")
    /\ dailyProgress = <<>>
    /\ renderToday = toISODate(clock)
    /\ storageFull \in {"none", "all"}
    /\ writeOutcome = "none"
    /\ nCalls = 0
    /\ timer = timerInitialState
    /\ timeouts = {}
    /\ countdown = countdownInitialState(25, 0)

\* set(state => { ...; saveState(newState); return newState })
FlagSave(next) ==
    /\ goals' = next
    /\ localStorage' = saveState(localStorage, next, setItemOutcome(storageFull))
    /\ writeOutcome' = setItemOutcome(storageFull)
    /\ UNCHANGED storageFull

FlagAddGoal ==
    /\ impl = "flagStore"
    /\ nCalls < MaxCalls
    /\ FlagSave(flagStore_addGoal(goals, clock))
    /\ nCalls' = nCalls + 1
    /\ UNCHANGED <<timer, timeouts, countdown,
                   phase, impl, clock, dailyProgress, renderToday>>

FlagToggleGoal(id) ==
    /\ impl = "flagStore"
    /\ hasGoal(id) => nCalls < MaxCalls
    /\ FlagSave(toggleGoal(noteStartOfDay(goals, id, toDateString(clock)),
                           id, clock))
    /\ nCalls' = IF hasGoal(id) THEN nCalls + 1 ELSE nCalls
    /\ UNCHANGED <<timer, timeouts, countdown,
                   phase, impl, clock, dailyProgress, renderToday>>

FlagDeleteGoal(id) ==
    /\ impl = "flagStore"
    /\ hasGoal(id) => nCalls < MaxCalls
    /\ FlagSave(flagStore_deleteGoal(goals, id))
    /\ nCalls' = IF hasGoal(id) THEN nCalls + 1 ELSE nCalls
    /\ UNCHANGED <<timer, timeouts, countdown,
                   phase, impl, clock, dailyProgress, renderToday>>

FlagNext ==
    \/ TickMs
    \/ NextDay
    \/ FlagAddGoal
    \/ \E id \in IdInputs : FlagToggleGoal(id)
    \/ \E id \in IdInputs : FlagDeleteGoal(id)

FlagSpec == FlagInit /\ [][FlagNext]_vars

\* C30: in the flag-based store, any number of toggleGoal calls on one goal
\* within a single calendar day leaves its streak at most 1 above the value
\* it had at the start of that day: un-completing takes back the increment
\* that completing added.
C30_FlagStreakAtMostOneAboveDayStart ==
    \A i \in DOMAIN goals :
        (goals[i].startOfDay /= undefined
            /\ goals[i].startOfDay[1] = toDateString(clock)) =>
                goals[i].streak <= goals[i].startOfDay[2] + 1

\* C31: in the flag-based store, for a goal that was completed on an earlier
\* day, the first toggleGoal call on a later day records a completion for
\* that later day: completed is true, lastCompleted is that day, and the
\* streak is extended when the earlier day is yesterday and reset to 1
\* otherwise.
C31_FirstToggleOfDayCompletes ==
    [][\A id \in GoalIds :
          FlagToggleGoal(id) =>
              \A i \in DOMAIN goals :
                  (/\ goals[i].id = id
                   /\ goals[i].lastCompleted /= undefined
                   /\ goals[i].lastCompleted[1] < toDateString(clock)
                   /\ \/ goals[i].startOfDay = undefined
                      \/ goals[i].startOfDay[1] /= toDateString(clock)) =>
                      /\ goals'[i].completed
                      /\ goals'[i].lastCompleted = <<toDateString(clock)>>
                      /\ goals'[i].streak =
                            IF goals[i].lastCompleted[1] = toDateString(clock) - 1
                              THEN goals[i].streak + 1
                              ELSE 1]_vars

\* C32: the stored goal list and the stored ledger always come from one
\* in-memory state: whenever a step changes what is stored, also when a write
\* fails part-way, the stored document is the serialisation of the goal list
\* and of the ledger that the step left in memory, never a goal list newer
\* than the ledger or the reverse.
C32_StoredCopyFromOneState ==
    [][localStorage' /= localStorage =>
          /\ localStorage'.goals = stringifyGoals(goals')
          /\ localStorage'.dailyProgress = stringifyProgress(dailyProgress')]_vars

\* ------------------------------------------------ the focus timer running
\* The sessions an earlier visit completed: the store persists its counters
\* and its history, and the next visit starts from them.
PriorSessions == {0, 3, 4, 6}

\* one session run down to zero: the mode is chosen, the timer started, the
\* last tick leaves time = 0 and the completion effect calls
\* handleTimerComplete
sessionRun(state, mode, now) ==
    handleTimerComplete(
        setTime(startTimer(noteDuration(switchMode(state, mode))), 0), now)

\* the store after the sessions k..n, focus and break in turn, each
\* completed at the clock reading of its number
RECURSIVE runSessions(_, _, _)
runSessions(state, k, n) ==
    IF k > n THEN state
    ELSE LET mode == IF k % 2 = 1 THEN "focus"
                     ELSE IF state.pomodoroCount % 4 = 0 THEN "longBreak"
                     ELSE "shortBreak"
         IN  runSessions(sessionRun(state, mode, k), k + 1, n)

storeAfter(n) == runSessions(timerInitialState, 1, n)

TimerInit ==
    /\ phase = "running"
    /\ impl = "timerStore"
    /\ \E n \in PriorSessions :
        /\ clock = n
        /\ timer = storeAfter(n)
    /\ timeouts = {}
    /\ goals = <<>>
    /\ dailyProgress = <<>>
    /\ renderToday = toISODate(clock)
    /\ localStorage = null
    /\ storageFull = "none"
    /\ writeOutcome = "none"
    /\ nCalls = 0
    /\ countdown = countdownInitialState(25, 0)

\* the effect of a render runs before React handles the next event: while
\* time = 0 with isRunning set, the completion effect is what happens next
effectPending == timer.time = 0 /\ timer.isRunning

\* a click on one of the timer's controls puts the store in state next
TimerClick(next) ==
    /\ impl = "timerStore"
    /\ ~effectPending
    /\ nCalls < MaxClicks
    /\ nCalls' = nCalls + 1
    /\ timer' = next
    /\ UNCHANGED <<timeouts, countdown, phase, impl, clock, goals,
                   dailyProgress, renderToday, localStorage, storageFull,
                   writeOutcome>>

\* the Start button: shown while the timer is not running, disabled at 0
TimerStart ==
    /\ ~timer.isRunning
    /\ timer.time /= 0
    /\ TimerClick(startTimer(timer))

\* the Pause button: shown while the timer is running
TimerPause ==
    /\ timer.isRunning
    /\ TimerClick(pauseTimer(timer))

TimerReset == TimerClick(noteDuration(resetTimer(timer)))

TimerSwitchMode(modeOption) ==
    TimerClick(noteDuration(switchMode(timer, modeOption)))

\* handleSetTimer, from a preset button of the current mode
TimerSetDuration(label) ==
    /\ label \in DOMAIN timerPresets[timer.mode]
    /\ TimerClick(noteDuration(
           setTimerDuration(timer, timerPresets[timer.mode][label])))

\* the auto-start switch: e.target.checked is the other value
TimerSetAutoStartBreaks ==
    TimerClick(setAutoStartBreaks(timer, ~timer.autoStartBreaks))

\* The interval of the timer effect fires a second after the render that set
\* it.  A pending timeout fires 2 s after it was set, so at most two
\* seconds of countdown pass before it.
TimerInterval ==
    /\ impl = "timerStore"
    /\ timer.isRunning
    /\ timer.time > 0
    /\ \A t \in timeouts : t.elapsed < 2
    /\ timer' = setTime(timer, timer.time - 1)
    /\ clock' = clock + 1
    /\ timeouts' = {[t EXCEPT !.elapsed = @ + 1] : t \in timeouts}
    /\ UNCHANGED <<countdown, phase, impl, goals, dailyProgress, renderToday,
                   localStorage, storageFull, writeOutcome, nCalls>>

\* the completion effect: handleTimerComplete, which sets the auto-start
\* timeout after a focus session when autoStartBreaks is on
TimerCompletion ==
    /\ impl = "timerStore"
    /\ timer.time = 0
    /\ timer.isRunning
    /\ timer' = handleTimerComplete(timer, clock)
    /\ timeouts' = IF timer.mode = "focus" /\ timer.autoStartBreaks
                     THEN timeouts \cup {[pomodoroCount |-> timer.pomodoroCount,
                                          elapsed |-> 0]}
                     ELSE timeouts
    /\ UNCHANGED <<countdown, phase, impl, clock, goals, dailyProgress,
                   renderToday, localStorage, storageFull, writeOutcome, nCalls>>

\* the auto-start timeout fires, 2 s after it was set
TimerAutoStart ==
    /\ impl = "timerStore"
    /\ \E t \in timeouts :
        /\ timer' = noteDuration(autoStartCallback(timer, t.pomodoroCount))
        /\ timeouts' = timeouts \ {t}
        /\ clock' = clock + (2 - t.elapsed)
    /\ UNCHANGED <<countdown, phase, impl, goals, dailyProgress, renderToday,
                   localStorage, storageFull, writeOutcome, nCalls>>

TimerNext ==
    \/ TimerStart
    \/ TimerPause
    \/ TimerReset
    \/ \E modeOption \in TimerModes : TimerSwitchMode(modeOption)
    \/ \E label \in {"5", "10", "15", "20", "25", "45", "60"} :
           TimerSetDuration(label)
    \/ TimerSetAutoStartBreaks
    \/ TimerInterval
    \/ TimerCompletion
    \/ TimerAutoStart

TimerSpec == TimerInit /\ [][TimerNext]_vars

\* C33: a countdown that has run to zero while running is recorded by the
\* next step, once: completedSessions grows by exactly 1, exactly one entry
\* is put in front of timerHistory, isRunning becomes false and isCompleted
\* true, and pomodoroCount grows by 1 only when the mode is focus; no other
\* step changes the counters or the history.
C33_CountdownRecordedOnce ==
    [][IF timer.time = 0 /\ timer.isRunning
         THEN /\ timer'.completedSessions = timer.completedSessions + 1
              /\ Len(timer'.timerHistory) >= 1
              /\ timer'.timerHistory[1].mode = timer.mode
              /\ Tail(timer'.timerHistory) =
                     SubSeq(timer.timerHistory, 1,
                            Len(timer'.timerHistory) - 1)
              /\ Len(timer'.timerHistory) >= Len(timer.timerHistory)
              /\ ~timer'.isRunning
              /\ timer'.isCompleted
              /\ timer'.pomodoroCount =
                     IF timer.mode = "focus" THEN timer.pomodoroCount + 1
                     ELSE timer.pomodoroCount
         ELSE /\ timer'.completedSessions = timer.completedSessions
              /\ timer'.timerHistory = timer.timerHistory
              /\ timer'.pomodoroCount = timer.pomodoroCount]_vars

\* a break session and a focus session of this visit, each just recorded
C33_Witness ==
    /\ impl = "timerStore"
    /\ nCalls > 0
    /\ timer.isCompleted
    /\ ~timer.isRunning
    /\ Len(timer.timerHistory) >= 2
    /\ timer.timerHistory[1].completedAt = clock
    /\ timer.timerHistory[1].mode = "shortBreak"
    /\ timer.timerHistory[2].mode = "focus"
    /\ timer.timerHistory[2].completedAt > 6

\* C34: when a focus session of duration d runs to completion, totalFocusTime
\* grows by d and the entry put in timerHistory has duration d.
C34_FocusTimeCounted ==
    [][(timer.time = 0 /\ timer.isRunning /\ timer.mode = "focus") =>
           /\ timer'.totalFocusTime =
                  timer.totalFocusTime + timer.sessionDuration
           /\ timer'.timerHistory[1].duration = timer.sessionDuration]_vars

\* The browser runs a timeout that was set, an interval that is set and the
\* effects of a render, as long as the page stays open.
TimerFairSpec ==
    /\ TimerSpec
    /\ WF_vars(TimerAutoStart)
    /\ WF_vars(TimerCompletion)
    /\ WF_vars(TimerInterval)

\* the break that follows the focus sessions completed so far
breakDue == IF timer.pomodoroCount % 4 = 0 THEN "longBreak" ELSE "shortBreak"

\* the timer runs the break of that mode from its default duration
breakRunning(mode) ==
    /\ timer.mode = mode
    /\ timer.isRunning
    /\ timer.time = (IF mode = "longBreak" THEN 15 ELSE 5) * SecondsPerMinute

\* C35: after a focus session completes with autoStartBreaks on, the timer is
\* eventually in a break mode and running from the break's default duration:
\* a long break exactly when the number of completed focus sessions is a
\* multiple of 4, else a short break; the step of the timeout leaves that
\* state, and completing a break sets no timeout.
C35_BreakAutoStarts ==
    /\ \A mode \in {"shortBreak", "longBreak"} :
           (timeouts /= {} /\ breakDue = mode) ~> breakRunning(mode)
    /\ [][/\ (effectPending /\ timer.mode = "focus" /\ timer.autoStartBreaks)
                 => timeouts' /= {}
          /\ (effectPending /\ timer.mode /= "focus")
                 => (timeouts' = {} /\ ~timer'.isRunning)
          /\ (timeouts /= {} /\ timeouts' = {}) =>
                 \E mode \in {"shortBreak", "longBreak"} :
                     /\ breakDue = mode
                     /\ timer'.mode = mode
                     /\ timer'.isRunning
                     /\ timer'.time = (IF mode = "longBreak" THEN 15 ELSE 5)
                                          * SecondsPerMinute]_vars

\* the fourth focus session completed and its timeout has started the long
\* break
C35_Witness ==
    /\ impl = "timerStore"
    /\ nCalls > 0
    /\ timeouts = {}
    /\ timer.pomodoroCount = 4
    /\ timer.timerHistory[1].mode = "focus"
    /\ timer.timerHistory[1].completedAt + 2 = clock
    /\ breakRunning("longBreak")

\* C36: timerHistory never holds more than HistoryKept + 1 sessions (100 in
\* the program) and lists them newest first; a session added to a full
\* history goes first, the oldest one is dropped and the others keep their
\* order.
C36_HistoryCapped ==
    /\ [](/\ Len(timer.timerHistory) <= HistoryKept + 1
          /\ \A i, j \in DOMAIN timer.timerHistory :
                 i < j => timer.timerHistory[i].completedAt
                              > timer.timerHistory[j].completedAt)
    /\ [][(/\ Len(timer.timerHistory) = HistoryKept + 1
           /\ timer'.timerHistory /= timer.timerHistory) =>
              /\ Len(timer'.timerHistory) = HistoryKept + 1
              /\ timer'.timerHistory[1].completedAt = clock
              /\ Tail(timer'.timerHistory) =
                     SubSeq(timer.timerHistory, 1, HistoryKept)]_vars

\* a session of this visit was added to the full history of sessions 4 to 1:
\* session 1 is gone
C36_Witness ==
    /\ impl = "timerStore"
    /\ nCalls > 0
    /\ Len(timer.timerHistory) = HistoryKept + 1
    /\ timer.timerHistory[1].completedAt = clock
    /\ clock > 6
    /\ timer.timerHistory[2].completedAt = 4
    /\ timer.timerHistory[HistoryKept + 1].completedAt = 2

\* ------------------------------------------ the flag-based countdown running
\* timerMinutes and timerSeconds as saveState stored them in an earlier
\* session (0, 0 also when nothing is stored)
StoredMinutes == {0, 1, 25}

StoredSeconds == {0, 1, 59}

CountdownInit ==
    /\ phase = "running"
    /\ impl = "flagStore"
    /\ clock = FirstDay * MsPerDay
    /\ goals = <<>>
    /\ dailyProgress = <<>>
    /\ renderToday = toISODate(clock)
    /\ localStorage = null
    /\ storageFull = "none"
    /\ writeOutcome = "none"
    /\ nCalls = 0
    /\ timer = timerInitialState
    /\ timeouts = {}
    /\ \E storedMinutes \in StoredMinutes, storedSeconds \in StoredSeconds :
           countdown = countdownInitialState(storedMinutes, storedSeconds)

\* the Start button, shown while the countdown is not running
CountdownStart ==
    /\ impl = "flagStore"
    /\ ~countdown.isTimerRunning
    /\ countdown' = flagStore_startTimer(countdown)
    /\ UNCHANGED <<timer, timeouts, phase, impl, clock, goals, dailyProgress,
                   renderToday, localStorage, storageFull, writeOutcome,
                   nCalls>>

\* the Pause button, shown while the countdown is running
CountdownStop ==
    /\ impl = "flagStore"
    /\ countdown.isTimerRunning
    /\ countdown' = stopTimer(countdown)
    /\ UNCHANGED <<timer, timeouts, phase, impl, clock, goals, dailyProgress,
                   renderToday, localStorage, storageFull, writeOutcome,
                   nCalls>>

\* the Reset button; resetTimer saves the state
CountdownReset ==
    /\ impl = "flagStore"
    /\ countdown' = flagStore_resetTimer(countdown)
    /\ FlagSave(goals)
    /\ UNCHANGED <<timer, timeouts, phase, impl, clock, dailyProgress,
                   renderToday, nCalls>>

\* The effect sets the interval only while isTimerRunning holds and
\* timerMinutes or timerSeconds is above 0; its callback, tickTimer, runs a
\* second later and the render that follows sets the interval anew.
CountdownTick ==
    /\ impl = "flagStore"
    /\ countdown.isTimerRunning
    /\ countdown.timerMinutes > 0 \/ countdown.timerSeconds > 0
    /\ countdown' = tickTimer(countdown)
    /\ UNCHANGED <<timer, timeouts, phase, impl, clock, goals, dailyProgress,
                   renderToday, localStorage, storageFull, writeOutcome,
                   nCalls>>

CountdownNext ==
    \/ CountdownStart
    \/ CountdownStop
    \/ CountdownReset
    \/ CountdownTick

CountdownSpec == CountdownInit /\ [][CountdownNext]_vars

\* the browser runs the interval the effect has set
CountdownFairSpec == CountdownSpec /\ WF_vars(CountdownTick)

atZero == countdown.timerMinutes = 0 /\ countdown.timerSeconds = 0

\* C37: timerSeconds stays in 0..59 and timerMinutes at or above 0; a running
\* countdown reaches 00:00 unless the user stops it, and at 00:00
\* isTimerRunning eventually becomes false without a click.
C37_CountdownEnds ==
    /\ [](/\ countdown.timerSeconds \in 0..59
          /\ countdown.timerMinutes >= 0)
    /\ countdown.isTimerRunning ~> (atZero \/ ~countdown.isTimerRunning)
    /\ (countdown.isTimerRunning /\ atZero) ~> ~countdown.isTimerRunning

\* the number a string of decimal digits denotes
digitValue(char) == CHOOSE d \in 0..9 : Digits[d + 1] = char

RECURSIVE parseDigits(_)
parseDigits(str) ==
    IF str = <<>> THEN 0
    ELSE 10 * parseDigits(SubSeq(str, 1, Len(str) - 1))
             + digitValue(str[Len(str)])

isDigits(str) == \A i \in DOMAIN str : \E d \in 1..10 : Digits[d] = str[i]

\* str is mm:ss for the seconds in time: minutes in at least two digits, with
\* a leading zero only to fill the two, a colon, seconds in two digits
isMinutesSeconds(str, time) ==
    /\ Len(str) >= 5
    /\ str[Len(str) - 2] = ":"
    /\ LET mm == SubSeq(str, 1, Len(str) - 3)
           ss == SubSeq(str, Len(str) - 1, Len(str))
       IN  /\ isDigits(mm)
           /\ isDigits(ss)
           /\ Len(mm) > 2 => mm[1] /= "0"
           /\ parseDigits(ss) < SecondsPerMinute
           /\ parseDigits(mm) * SecondsPerMinute + parseDigits(ss) = time

\* C38: in every state, so in every state left by setTime, resetTimer,
\* switchMode or setTimerDuration, remainingTime is the zero-padded mm:ss
\* rendering of time; the Reset, mode and preset buttons leave isRunning and
\* isCompleted false.
C38_RemainingTimeRendersTime ==
    /\ [](impl = "timerStore" => isMinutesSeconds(timer.remainingTime, timer.time))
    /\ [][(\/ TimerReset
           \/ \E modeOption \in TimerModes : TimerSwitchMode(modeOption)
           \/ \E label \in {"5", "10", "15", "20", "25", "45", "60"} :
                  TimerSetDuration(label)) =>
              (~timer'.isRunning /\ ~timer'.isCompleted)]_vars

\* a short break of this visit was completed and the Reset button has put the
\* timer back to 05:00
C38_Witness ==
    /\ impl = "timerStore"
    /\ nCalls > 1
    /\ Len(timer.timerHistory) >= 1
    /\ timer.timerHistory[1].completedAt = clock
    /\ clock > 6
    /\ timer.mode = "shortBreak"
    /\ ~timer.isRunning
    /\ ~timer.isCompleted
    /\ timer.time = 5 * SecondsPerMinute
    /\ timer.remainingTime = <<"0", "5", ":", "0", "0">>

====
